---- MODULE Spec2Model ----
(***************************************************************************)
(* A model of the MASATI annotation-to-mask code:                          *)
(*   shipseg/utils/annotation.py        boxes, parsing of annotations      *)
(*   shipseg/data/preprocess/annotation_to_mask.py   the mask rasteriser   *)
(*   scripts/create_masks.py            the batch driver                   *)
(*                                                                         *)
(* Numbers.  A Python number is modelled as an exact rational n/d in       *)
(* lowest terms together with its Python type (f = TRUE for float, FALSE   *)
(* for int).  Arithmetic follows Python's typing rules (true division      *)
(* always gives a float, int() always gives an int); float rounding error  *)
(* is not modelled: floats carry exact rational values.                    *)
(***************************************************************************)
EXTENDS Integers, Sequences, FiniteSets, TLC

VARIABLES
    \* --- box algebra (SpecBox) ---
    hist,       \* the boxes produced so far, the first one being the input
    ops,        \* ops[i] is the method that produced hist[i+1] from hist[i]
    dims,       \* <<img_width, img_height>> handed to to_absolute/to_relative
    \* --- parsing and rasterisation (Spec) ---
    srcLines,   \* the lines the annotation text was written from
    input,      \* the argument of MASATIImageAnnotation.from_str
    img,        \* the shape of Annotation2Mask.img
    pc,         \* position in from_file / create_mask
    annotation, \* outcome of MASATIImageAnnotation.from_str
    maskRes,    \* outcome of Annotation2Mask.create_mask
    \* --- batch driver (SpecBatch) ---
    items,      \* list(image_folder.glob('*.png')) with what is on disk
    outcome,    \* outcome[i]: what the try body does on items[i], which
                \* what is on disk decides
    idx,        \* position of the for loop in items
    bpc,        \* "loop", "done", or "crashed" (uncaught exception)
    written,    \* positions whose mask file was written
    reported,   \* positions whose "missing files" message was printed
    uncaught,   \* the exception that ended the script, if any
    \* --- annotation objects and the lists they store (SpecAlias) ---
    heap,       \* heap[k]: the content of list object k
    objs,       \* the MASATIImageAnnotation objects constructed so far
    held        \* the list objects the calling code holds a reference to

vars == <<hist, ops, dims, srcLines, input, img, pc, annotation, maskRes,
          items, outcome, idx, bpc, written, reported, uncaught,
          heap, objs, held>>

boxVars == <<hist, ops, dims>>
pipeVars == <<srcLines, input, img, pc, annotation, maskRes>>
batchVars == <<items, outcome, idx, bpc, written, reported, uncaught>>
aliasVars == <<heap, objs, held>>

Null == [kind |-> "None"]

\* no annotation object is being followed
NoAlias ==
    /\ heap = <<>>
    /\ objs = <<>>
    /\ held = {}

\* the batch driver is not running
NoBatch ==
    /\ items = <<>>
    /\ outcome = <<>>
    /\ idx = 0
    /\ bpc = "idle"
    /\ written = {}
    /\ reported = {}
    /\ uncaught = Null

-----------------------------------------------------------------------------
(* Python numbers *)

Abs(x) == IF x < 0 THEN -x ELSE x

RECURSIVE GCD(_, _)
GCD(a, b) == IF b = 0 THEN a ELSE GCD(b, a % b)

\* n/d in lowest terms, d > 0
Num(n, d, f) ==
    LET g == GCD(Abs(n), d)
    IN  IF n = 0 THEN [n |-> 0, d |-> 1, f |-> f]
        ELSE [n |-> n \div g, d |-> d \div g, f |-> f]

PyInt(n) == [n |-> n, d |-> 1, f |-> FALSE]
PyFloat(n, d) == Num(n, d, TRUE)

NAdd(a, b) == Num(a.n * b.d + b.n * a.d, a.d * b.d, a.f \/ b.f)
NSub(a, b) == Num(a.n * b.d - b.n * a.d, a.d * b.d, a.f \/ b.f)
NMul(a, b) == Num(a.n * b.n, a.d * b.d, a.f \/ b.f)
\* Python's "/" : the result is a float whatever the operands are (b # 0)
NTrueDiv(a, b) ==
    IF b.n > 0 THEN Num(a.n * b.d, a.d * b.n, TRUE)
    ELSE Num(-(a.n * b.d), a.d * (-b.n), TRUE)
\* Python's int(): truncation toward zero, the result is an int
NTrunc(a) ==
    IF a.n >= 0 THEN PyInt(a.n \div a.d) ELSE PyInt(-((-a.n) \div a.d))
NLe(a, b) == a.n * b.d <= b.n * a.d
NLt(a, b) == a.n * b.d < b.n * a.d
\* Python's == on numbers compares values: 1 == 1.0
NEq(a, b) == a.n = b.n /\ a.d = b.d

-----------------------------------------------------------------------------
(* BoundingBox *)

BoundingBox(class_id, min_x, max_x, min_y, max_y) ==
    [kind |-> "BoundingBox", class_id |-> class_id,
     min_x |-> min_x, max_x |-> max_x, min_y |-> min_y, max_y |-> max_y]

CenteredBoundingBox(class_id, center_x, center_y, width, height) ==
    [kind |-> "CenteredBoundingBox", class_id |-> class_id,
     center_x |-> center_x, center_y |-> center_y,
     width |-> width, height |-> height]

check_is_relative(coordinate) ==
    NLe(PyInt(0), coordinate) /\ NLe(coordinate, PyInt(1))

BoundingBox_is_relative(self) ==
    /\ check_is_relative(self.min_x)
    /\ check_is_relative(self.max_x)
    /\ check_is_relative(self.min_y)
    /\ check_is_relative(self.max_y)

CenteredBoundingBox_is_relative(self) ==
    /\ check_is_relative(self.center_x)
    /\ check_is_relative(self.center_y)
    /\ check_is_relative(self.width)
    /\ check_is_relative(self.height)

is_relative(self) ==
    IF self.kind = "BoundingBox" THEN BoundingBox_is_relative(self)
    ELSE CenteredBoundingBox_is_relative(self)

is_absolute(self) == ~is_relative(self)

\* int(coordinate * dimension)
Scale(coordinate, dimension) == NTrunc(NMul(coordinate, PyInt(dimension)))

\* a plausible slip: the test is inverted ("if self.is_absolute:"), so a
\* relative box is returned as it is and an absolute one is scaled
BoundingBox_to_absolute_inverted(self, img_width, img_height) ==
    IF is_absolute(self)
    THEN BoundingBox(self.class_id,
                     Scale(self.min_x, img_width),
                     Scale(self.max_x, img_width),
                     Scale(self.min_y, img_height),
                     Scale(self.max_y, img_height))
    ELSE BoundingBox(self.class_id,
                     self.min_x, self.max_x, self.min_y, self.max_y)

BoundingBox_to_absolute(self, img_width, img_height) ==
    IF ~is_absolute(self)
    THEN BoundingBox(self.class_id,
                     Scale(self.min_x, img_width),
                     Scale(self.max_x, img_width),
                     Scale(self.min_y, img_height),
                     Scale(self.max_y, img_height))
    ELSE BoundingBox(self.class_id,
                     self.min_x, self.max_x, self.min_y, self.max_y)

BoundingBox_to_relative(self, img_width, img_height) ==
    IF ~is_relative(self)
    THEN BoundingBox(self.class_id,
                     NTrueDiv(self.min_x, PyInt(img_width)),
                     NTrueDiv(self.max_x, PyInt(img_width)),
                     NTrueDiv(self.min_y, PyInt(img_height)),
                     NTrueDiv(self.max_y, PyInt(img_height)))
    ELSE BoundingBox(self.class_id,
                     self.min_x, self.max_x, self.min_y, self.max_y)

to_centered_bbox(self) ==
    CenteredBoundingBox(self.class_id,
                        NTrueDiv(NAdd(self.min_x, self.max_x), PyInt(2)),
                        NTrueDiv(NAdd(self.min_y, self.max_y), PyInt(2)),
                        NSub(self.max_x, self.min_x),
                        NSub(self.max_y, self.min_y))

CenteredBoundingBox_to_absolute(self, img_width, img_height) ==
    IF ~is_absolute(self)
    THEN CenteredBoundingBox(self.class_id,
                             Scale(self.center_x, img_width),
                             Scale(self.center_y, img_height),
                             Scale(self.width, img_width),
                             Scale(self.height, img_height))
    ELSE CenteredBoundingBox(self.class_id, self.center_x, self.center_y,
                             self.width, self.height)

\* a plausible slip: the is_relative test is left out and every box divided
CenteredBoundingBox_to_relative_unguarded(self, img_width, img_height) ==
    CenteredBoundingBox(self.class_id,
                        NTrueDiv(self.center_x, PyInt(img_width)),
                        NTrueDiv(self.center_y, PyInt(img_height)),
                        NTrueDiv(self.width, PyInt(img_width)),
                        NTrueDiv(self.height, PyInt(img_height)))

CenteredBoundingBox_to_relative(self, img_width, img_height) ==
    IF ~is_relative(self)
    THEN CenteredBoundingBox(self.class_id,
                             NTrueDiv(self.center_x, PyInt(img_width)),
                             NTrueDiv(self.center_y, PyInt(img_height)),
                             NTrueDiv(self.width, PyInt(img_width)),
                             NTrueDiv(self.height, PyInt(img_height)))
    ELSE CenteredBoundingBox(self.class_id, self.center_x, self.center_y,
                             self.width, self.height)

\* a plausible slip: the full size is subtracted instead of half of it
to_bbox_full_size(self) ==
    BoundingBox(self.class_id,
                NSub(self.center_x, self.width),
                NAdd(self.center_x, self.width),
                NSub(self.center_y, self.height),
                NAdd(self.center_y, self.height))

to_bbox(self) ==
    BoundingBox(self.class_id,
                NSub(self.center_x, NTrueDiv(self.width, PyInt(2))),
                NAdd(self.center_x, NTrueDiv(self.width, PyInt(2))),
                NSub(self.center_y, NTrueDiv(self.height, PyInt(2))),
                NAdd(self.center_y, NTrueDiv(self.height, PyInt(2))))

\* the dataclass __eq__: same class, fields equal as Python values
BoxEq(a, b) ==
    /\ a.kind = b.kind
    /\ a.class_id = b.class_id
    /\ IF a.kind = "BoundingBox"
       THEN /\ NEq(a.min_x, b.min_x) /\ NEq(a.max_x, b.max_x)
            /\ NEq(a.min_y, b.min_y) /\ NEq(a.max_y, b.max_y)
       ELSE /\ NEq(a.center_x, b.center_x) /\ NEq(a.center_y, b.center_y)
            /\ NEq(a.width, b.width) /\ NEq(a.height, b.height)

-----------------------------------------------------------------------------
(* The box algebra as a state machine: a box is constructed, then methods  *)
(* are called on the latest result.                                        *)

MaxCoord == 3   \* largest integer coordinate of a constructed box
MaxDim == 3     \* largest image width / height
MaxCalls == 2   \* number of method calls made on one box

ClassIds == {0, 1}

\* image widths and heights: a one-pixel side and the largest side
DimValues == {1, MaxDim}

\* coordinates a box is constructed with: pixel values, one negative
\* value, and the relative value 0.5
CoordValues ==
    {PyInt(n) : n \in (-1)..MaxCoord} \cup {PyFloat(1, 2)}

InitBoxes ==
    {BoundingBox(c, a, b, d, e) :
        c \in ClassIds, a \in CoordValues, b \in CoordValues,
        d \in CoordValues, e \in CoordValues}
    \cup
    {CenteredBoundingBox(c, a, b, d, e) :
        c \in ClassIds, a \in CoordValues, b \in CoordValues,
        d \in CoordValues, e \in CoordValues}

Last(s) == s[Len(s)]

InitBox ==
    /\ hist \in {<<b>> : b \in InitBoxes}
    /\ ops = <<>>
    /\ dims \in DimValues \X DimValues
    /\ srcLines = <<>>
    /\ input = Null
    /\ img = <<>>
    /\ pc = "idle"
    /\ annotation = Null
    /\ maskRes = Null
    /\ NoBatch
    /\ NoAlias

Call(op, result) ==
    /\ Len(ops) < MaxCalls
    /\ hist' = Append(hist, result)
    /\ ops' = Append(ops, op)
    /\ UNCHANGED <<dims, pipeVars, batchVars, aliasVars>>

ToAbsolute ==
    /\ Call("to_absolute",
            IF Last(hist).kind = "BoundingBox"
            THEN BoundingBox_to_absolute(Last(hist), dims[1], dims[2])
            ELSE CenteredBoundingBox_to_absolute(Last(hist), dims[1], dims[2]))

ToRelative ==
    /\ Call("to_relative",
            IF Last(hist).kind = "BoundingBox"
            THEN BoundingBox_to_relative(Last(hist), dims[1], dims[2])
            ELSE CenteredBoundingBox_to_relative(Last(hist), dims[1], dims[2]))

ToCenteredBbox ==
    /\ Last(hist).kind = "BoundingBox"
    /\ Call("to_centered_bbox", to_centered_bbox(Last(hist)))

ToBbox ==
    /\ Last(hist).kind = "CenteredBoundingBox"
    /\ Call("to_bbox", to_bbox(Last(hist)))

NextBox == ToAbsolute \/ ToRelative \/ ToCenteredBbox \/ ToBbox

SpecBox == InitBox /\ [][NextBox]_vars

\* positions i where ops[i] = f and ops[i+1] = g
Pairs(f, g) ==
    {i \in 1..(Len(ops) - 1) : ops[i] = f /\ ops[i + 1] = g}

\* |a - b| <= 1
Within1(a, b) ==
    /\ NLe(NSub(a, b), PyInt(1))
    /\ NLe(NSub(b, a), PyInt(1))

CornerWithin1(a, b) ==
    /\ a.kind = "BoundingBox" /\ b.kind = "BoundingBox"
    /\ a.class_id = b.class_id
    /\ Within1(a.min_x, b.min_x) /\ Within1(a.max_x, b.max_x)
    /\ Within1(a.min_y, b.min_y) /\ Within1(a.max_y, b.max_y)

\* every coordinate of corner box b lies in the image extent, bounds included
InExtent(b, w, h) ==
    /\ NLe(PyInt(0), b.min_x) /\ NLe(b.min_x, PyInt(w))
    /\ NLe(PyInt(0), b.max_x) /\ NLe(b.max_x, PyInt(w))
    /\ NLe(PyInt(0), b.min_y) /\ NLe(b.min_y, PyInt(h))
    /\ NLe(PyInt(0), b.max_y) /\ NLe(b.max_y, PyInt(h))

\* C6 as stated: for ANY corner box b, b.to_relative(W,H).to_absolute(W,H)
\* has b's class_id and coordinates within 1 unit of b's.
C6_RoundTripAnyBox ==
    \A i \in Pairs("to_relative", "to_absolute") :
        hist[i].kind = "BoundingBox" => CornerWithin1(hist[i + 2], hist[i])

\* C6 amended: the round trip b.to_relative(W,H).to_absolute(W,H) keeps the
\* class_id and every coordinate within 1 unit when b is absolute
\* (is_relative false) and its coordinates lie in [0,W] x [0,H].
C6_RoundTripAbsoluteInExtent ==
    \A i \in Pairs("to_relative", "to_absolute") :
        (/\ hist[i].kind = "BoundingBox"
         /\ is_absolute(hist[i])
         /\ InExtent(hist[i], dims[1], dims[2]))
        => CornerWithin1(hist[i + 2], hist[i])

C6_Witness ==
    \E i \in Pairs("to_relative", "to_absolute") :
        /\ hist[i].kind = "BoundingBox"
        /\ is_absolute(hist[i])
        /\ InExtent(hist[i], dims[1], dims[2])
        /\ hist[i + 1] # hist[i]
        /\ NLt(hist[i].min_x, hist[i].max_x)
        /\ NLt(hist[i].min_y, hist[i].max_y)

\* C7 as stated: to_absolute of an absolute box and to_relative of a
\* relative box return an equal box, and a second to_absolute (to_relative)
\* applied to the result of the first changes nothing.
C7_IdempotentTwice ==
    /\ \A i \in 1..Len(ops) :
        /\ (ops[i] = "to_absolute" /\ is_absolute(hist[i]))
               => BoxEq(hist[i + 1], hist[i])
        /\ (ops[i] = "to_relative" /\ is_relative(hist[i]))
               => BoxEq(hist[i + 1], hist[i])
    /\ \A i \in Pairs("to_absolute", "to_absolute") :
        BoxEq(hist[i + 2], hist[i + 1])
    /\ \A i \in Pairs("to_relative", "to_relative") :
        BoxEq(hist[i + 2], hist[i + 1])

\* C7 amended: for both box classes, to_absolute of an already-absolute box
\* and to_relative of an already-relative box return an equal box (same
\* class_id, same fields); a second application therefore changes nothing
\* only when the first result is itself absolute (resp. relative).
C7_NoOpOnSameScale ==
    \A i \in 1..Len(ops) :
        /\ (ops[i] = "to_absolute" /\ is_absolute(hist[i]))
               => BoxEq(hist[i + 1], hist[i])
        /\ (ops[i] = "to_relative" /\ is_relative(hist[i]))
               => BoxEq(hist[i + 1], hist[i])

\* a relative box was made absolute and the absolute result was handed to
\* to_absolute again
C7_Witness ==
    \E i \in Pairs("to_absolute", "to_absolute") :
        /\ is_relative(hist[i])
        /\ is_absolute(hist[i + 1])
        /\ hist[i + 1] # hist[i]
        /\ BoxEq(hist[i + 2], hist[i + 1])

\* C8: for every corner box b, b.to_centered_bbox().to_bbox() equals b in
\* class_id, min_x, max_x, min_y and max_y (exact arithmetic).
C8_FormRoundTrip ==
    \A i \in Pairs("to_centered_bbox", "to_bbox") :
        BoxEq(hist[i + 2], hist[i])

C8_Witness ==
    \E i \in Pairs("to_centered_bbox", "to_bbox") :
        /\ NLt(hist[i].min_x, hist[i].max_x)
        /\ NLt(hist[i].min_y, hist[i].max_y)
        /\ is_absolute(hist[i])
        /\ hist[i + 1].width # PyInt(0)
        /\ BoxEq(hist[i + 2], hist[i])

-----------------------------------------------------------------------------
(* Text.  A str is a sequence of one-character strings.                    *)

Whitespace == {" ", "\t", "\r", "\n"}
Digits == {"0", "1", "2", "3", "4", "5", "6", "7", "8", "9"}

DigitValue(c) ==
    CASE c = "0" -> 0 [] c = "1" -> 1 [] c = "2" -> 2 [] c = "3" -> 3
      [] c = "4" -> 4 [] c = "5" -> 5 [] c = "6" -> 6 [] c = "7" -> 7
      [] c = "8" -> 8 [] c = "9" -> 9

\* the first position of s at or after i holding a character in (or, with
\* member = FALSE, not in) set cs; Len(s) + 1 when there is none
RECURSIVE Find(_, _, _, _)
Find(s, i, cs, member) ==
    IF i > Len(s) THEN Len(s) + 1
    ELSE IF (s[i] \in cs) = member THEN i
    ELSE Find(s, i + 1, cs, member)

\* str.split(sep) for a one-character sep: empty pieces are kept
RECURSIVE str_split_sep(_, _)
str_split_sep(s, sep) ==
    LET j == Find(s, 1, {sep}, TRUE)
    IN  IF j > Len(s) THEN <<s>>
        ELSE <<SubSeq(s, 1, j - 1)>> \o str_split_sep(SubSeq(s, j + 1, Len(s)), sep)

\* str.split(): runs of whitespace separate, no empty piece is produced
RECURSIVE str_split(_)
str_split(s) ==
    LET b == Find(s, 1, Whitespace, FALSE)
        e == Find(s, b, Whitespace, TRUE)
    IN  IF b > Len(s) THEN <<>>
        ELSE <<SubSeq(s, b, e - 1)>> \o str_split(SubSeq(s, e, Len(s)))

\* "\n".join(lines)
RECURSIVE str_join(_)
str_join(lines) ==
    IF Len(lines) = 0 THEN <<>>
    ELSE IF Len(lines) = 1 THEN lines[1]
    ELSE lines[1] \o <<"\n">> \o str_join(Tail(lines))

RECURSIVE DigitsValue(_)
DigitsValue(s) ==
    IF Len(s) = 0 THEN 0
    ELSE 10 * DigitsValue(SubSeq(s, 1, Len(s) - 1)) + DigitValue(s[Len(s)])

RECURSIVE Pow10(_)
Pow10(k) == IF k = 0 THEN 1 ELSE 10 * Pow10(k - 1)

AllDigits(s) == \A i \in 1..Len(s) : s[i] \in Digits

Unsigned(s) ==
    IF Len(s) > 0 /\ s[1] \in {"-", "+"} THEN Tail(s) ELSE s
Sign(s) == IF Len(s) > 0 /\ s[1] = "-" THEN -1 ELSE 1

\* int(token): an optional sign and decimal digits, else ValueError
int_ok(tok) == Len(Unsigned(tok)) > 0 /\ AllDigits(Unsigned(tok))
int_value(tok) == Sign(tok) * DigitsValue(Unsigned(tok))

\* float(token): an optional sign and decimal digits around at most one
\* ".", at least one digit, else ValueError.  (Exponents, "inf" and "nan"
\* are literals of float() too; the texts modelled here hold none.)
float_ok(tok) ==
    LET u == Unsigned(tok)
        p == Find(u, 1, {"."}, TRUE)
        whole == SubSeq(u, 1, p - 1)
        frac == SubSeq(u, p + 1, Len(u))
    IN  /\ AllDigits(whole) /\ AllDigits(frac)
        /\ Len(whole) + Len(frac) > 0
float_value(tok) ==
    LET u == Unsigned(tok)
        p == Find(u, 1, {"."}, TRUE)
        whole == SubSeq(u, 1, p - 1)
        frac == SubSeq(u, p + 1, Len(u))
    IN  PyFloat(Sign(tok) * (DigitsValue(whole) * Pow10(Len(frac)) + DigitsValue(frac)),
                Pow10(Len(frac)))

-----------------------------------------------------------------------------
(* Parsing *)

Return(v) == [status |-> "return", value |-> v]
Raise(e) == [status |-> e]

CenteredBoundingBox_from_str(centered_bbox_str) ==
    LET bbox_data == str_split(centered_bbox_str)
    IN  IF Len(bbox_data) = 0 THEN Return(Null)
        ELSE IF Len(bbox_data) # 5 THEN Return(Null)
        ELSE IF ~int_ok(bbox_data[1]) THEN Raise("ValueError")
        ELSE IF \E i \in 2..5 : ~float_ok(bbox_data[i]) THEN Raise("ValueError")
        ELSE Return(CenteredBoundingBox(int_value(bbox_data[1]),
                                        float_value(bbox_data[2]),
                                        float_value(bbox_data[3]),
                                        float_value(bbox_data[4]),
                                        float_value(bbox_data[5])))

\* the list comprehension: from_str of every element that is not '', in
\* order; the first exception ends it
RECURSIVE ParseAll(_)
ParseAll(lines) ==
    IF Len(lines) = 0 THEN Return(<<>>)
    ELSE IF lines[1] = <<>> THEN ParseAll(Tail(lines))
    ELSE LET first == CenteredBoundingBox_from_str(lines[1])
             rest == ParseAll(Tail(lines))
         IN  IF first.status # "return" THEN first
             ELSE IF rest.status # "return" THEN rest
             ELSE Return(<<first.value>> \o rest.value)

\* image_annotations is [kind |-> "str", chars |-> ...] or
\* [kind |-> "list", items |-> ...]
MASATIImageAnnotation_from_str(image_annotations) ==
    ParseAll(IF image_annotations.kind = "str"
             THEN str_split_sep(image_annotations.chars, "\n")
             ELSE image_annotations.items)

-----------------------------------------------------------------------------
(* Rasterisation *)

Min(a, b) == IF a < b THEN a ELSE b
Max(a, b) == IF a > b THEN a ELSE b

\* Annotation2Mask.__post_init__ on the shape of img
Annotation2Mask_post_init(shape) ==
    IF Len(shape) > 3 THEN Raise("ValueError")
    ELSE IF shape[1] # 3 /\ shape[Len(shape)] # 3 THEN Raise("ValueError")
    ELSE IF shape[Len(shape)] = 3
         THEN IF Len(shape) # 3 THEN Raise("ValueError")  \* transpose(2, 0, 1)
              ELSE Return(<<shape[3], shape[1], shape[2]>>)
    ELSE Return(shape)

\* the positions a[start:stop] selects on an axis of length n
\* (Python's slice.indices with step 1: negative indices count from the
\* end, everything is clamped to the axis)
SliceRange(start, stop, n) ==
    LET norm(i) == IF i < 0 THEN Max(i + n, 0) ELSE Min(i, n)
    IN  norm(start)..(norm(stop) - 1)

\* a slice bound must be an int (have __index__): a float is a TypeError
IsIndex(x) == ~x.f

\* a plausible slip: rows taken from x and columns from y
PaintTransposed(fg, bbox, height, width) ==
    fg \cup (SliceRange(bbox.min_x.n, bbox.max_x.n, height)
             \X SliceRange(bbox.min_y.n, bbox.max_y.n, width))

\* mask[bbox.min_y : bbox.max_y, bbox.min_x : bbox.max_x] = 255;
\* fg is the set of <<row, column>> holding 255
Paint(fg, bbox, height, width) ==
    fg \cup (SliceRange(bbox.min_y.n, bbox.max_y.n, height)
             \X SliceRange(bbox.min_x.n, bbox.max_x.n, width))

RECURSIVE DrawAll(_, _, _, _)
DrawAll(bboxes, fg, height, width) ==
    IF Len(bboxes) = 0 THEN Return(fg)
    ELSE LET bbox == BoundingBox_to_absolute(bboxes[1], width, height)
         IN  IF ~(/\ IsIndex(bbox.min_y) /\ IsIndex(bbox.max_y)
                  /\ IsIndex(bbox.min_x) /\ IsIndex(bbox.max_x))
             THEN Raise("TypeError")
             ELSE DrawAll(Tail(bboxes), Paint(fg, bbox, height, width),
                          height, width)

\* MASATIImageAnnotation.annotations: to_bbox of every stored entry; a
\* stored None has no to_bbox
annotations(raw) ==
    IF \E i \in 1..Len(raw) : raw[i] = Null THEN Raise("AttributeError")
    ELSE Return([i \in 1..Len(raw) |-> to_bbox(raw[i])])

\* shape is the shape of self.img, (3, height, width)
create_mask(shape, raw) ==
    LET height == shape[2]
        width == shape[3]
        bboxes == annotations(raw)
    IN  IF bboxes.status # "return" THEN bboxes
        ELSE LET drawn == DrawAll(bboxes.value, {}, height, width)
             IN  IF drawn.status # "return" THEN drawn
                 ELSE Return([shape |-> <<height, width>>, fg |-> drawn.value])

-----------------------------------------------------------------------------
(* From annotation text to mask: MASATIImageAnnotation.from_str, then an   *)
(* Annotation2Mask is built around an image and create_mask is called.     *)

MaxLines == 3   \* lines of an annotation text

LineNames ==
    {"scenario", "left", "outside", "absolute", "empty", "blank", "short",
     "notnumeric"}

LineText(name) ==
    CASE name = "scenario" -> <<"0", " ", "0", ".", "5", " ", "0", ".", "5", " ", "0", ".", "2", " ", "0", ".", "4">>
      [] name = "left" -> <<"1", " ", "0", ".", "2", "5", " ", "0", ".", "5", " ", "0", ".", "5", " ", "1">>
      [] name = "outside" -> <<"1", " ", "0", ".", "9", " ", "0", ".", "5", " ", "0", ".", "4", " ", "0", ".", "4">>
      [] name = "absolute" -> <<"0", " ", "1", " ", "1", " ", "2", " ", "2">>
      [] name = "empty" -> <<>>
      [] name = "blank" -> <<"\r">>
      [] name = "short" -> <<"0", " ", "0", ".", "5", " ", "0", ".", "5">>
      [] name = "notnumeric" -> <<"0", " ", "x", " ", "0", ".", "5", " ", "0", ".", "2", " ", "0", ".", "4">>

\* what each line is meant to say: the box of a well-formed line
LineBox(name) ==
    CASE name = "scenario" ->
            CenteredBoundingBox(0, PyFloat(1, 2), PyFloat(1, 2),
                                PyFloat(1, 5), PyFloat(2, 5))
      [] name = "left" ->
            CenteredBoundingBox(1, PyFloat(1, 4), PyFloat(1, 2),
                                PyFloat(1, 2), PyFloat(1, 1))
      [] name = "outside" ->
            CenteredBoundingBox(1, PyFloat(9, 10), PyFloat(1, 2),
                                PyFloat(2, 5), PyFloat(2, 5))
      [] name = "absolute" ->
            CenteredBoundingBox(0, PyFloat(1, 1), PyFloat(1, 1),
                                PyFloat(2, 1), PyFloat(2, 1))
      [] OTHER -> Null

WellFormed == {"scenario", "left", "outside", "absolute"}
Blank == {"empty", "blank"}

\* image arrays: interleaved (H, W, 3) as cv2 decodes them, planar
\* (3, H, W), the 50 x 100 image of the documented scenario, and an RGBA
\* array
ImgShapes ==
    {<<h, w, 3>> : h \in DimValues, w \in DimValues}
    \cup {<<3, h, w>> : h \in DimValues, w \in DimValues}
    \cup {<<50, 100, 3>>, <<1, 1, 4>>}

Texts == UNION {[1..n -> LineNames] : n \in 0..MaxLines}

AsStr(names) ==
    [kind |-> "str", chars |-> str_join([i \in 1..Len(names) |-> LineText(names[i])])]
AsList(names) ==
    [kind |-> "list", items |-> [i \in 1..Len(names) |-> LineText(names[i])]]

Init ==
    /\ srcLines \in Texts
    /\ input \in {AsStr(srcLines), AsList(srcLines)}
    /\ img = <<>>
    /\ pc = "start"
    /\ annotation = Null
    /\ maskRes = Null
    /\ hist = <<>>
    /\ ops = <<>>
    /\ dims = <<1, 1>>
    /\ NoBatch
    /\ NoAlias

FromStr ==
    /\ pc = "start"
    /\ annotation' = MASATIImageAnnotation_from_str(input)
    /\ pc' = IF annotation'.status = "return" THEN "parsed" ELSE "raised"
    /\ UNCHANGED <<srcLines, input, img, maskRes, boxVars, batchVars, aliasVars>>

NewAnnotation2Mask ==
    /\ pc = "parsed"
    /\ \E shape \in ImgShapes :
        LET r == Annotation2Mask_post_init(shape)
        IN  IF r.status = "return"
            THEN /\ img' = r.value
                 /\ pc' = "constructed"
                 /\ UNCHANGED maskRes
            ELSE /\ img' = shape
                 /\ pc' = "raised"
                 /\ maskRes' = r
    /\ UNCHANGED <<srcLines, input, annotation, boxVars, batchVars, aliasVars>>

CreateMask ==
    /\ pc = "constructed"
    /\ maskRes' = create_mask(img, annotation.value)
    /\ pc' = "done"
    /\ UNCHANGED <<srcLines, input, img, annotation, boxVars, batchVars, aliasVars>>

Next == FromStr \/ NewAnnotation2Mask \/ CreateMask

Spec == Init /\ [][Next]_vars

-----------------------------------------------------------------------------
(* Claims about parsing and rasterisation *)

Height == img[2]
Width == img[3]
Raw == annotation.value

\* the boxes the well-formed lines of the text say, in the text's order
SaidBoxes ==
    LET kept == SelectSeq(srcLines, LAMBDA name : name \in WellFormed)
    IN  [i \in 1..Len(kept) |-> LineBox(kept[i])]

TokenCount(name) == Len(str_split(LineText(name)))

\* C1: a line whose token count is neither 0 nor 5 ends the parse in a
\* ParseError (Python's ValueError); there is no silent None for it.
C1_WrongTokenCountRaises ==
    (/\ pc # "start"
     /\ \E i \in 1..Len(srcLines) : TokenCount(srcLines[i]) \notin {0, 5})
    => annotation.status = "ValueError"

\* the corner box in pixel units: the corner form of a relative centre box
\* times the image dimensions, the corner form of an absolute one as it is
AbsoluteCorner(centered) ==
    LET b == to_bbox(centered)
    IN  IF is_relative(centered)
        THEN BoundingBox(b.class_id,
                         NMul(b.min_x, PyInt(Width)), NMul(b.max_x, PyInt(Width)),
                         NMul(b.min_y, PyInt(Height)), NMul(b.max_y, PyInt(Height)))
        ELSE b

\* some pixel of the box's rectangle would lie outside the image
OutsideImage(b) ==
    \/ NLt(b.min_x, PyInt(0)) \/ NLt(PyInt(Width), b.max_x)
    \/ NLt(b.min_y, PyInt(0)) \/ NLt(PyInt(Height), b.max_y)

\* C2: create_mask fails with a BoundsError whenever some box's absolute
\* corner coordinates fall outside the image; no clipping, no wrapping, no
\* unrelated error.
C2_OutOfBoundsIsBoundsError ==
    (/\ pc = "done"
     /\ \A i \in 1..Len(Raw) : Raw[i] # Null
     /\ \E i \in 1..Len(Raw) : OutsideImage(AbsoluteCorner(Raw[i])))
    => maskRes.status = "BoundsError"

\* the pixels of the half-open rectangle of corner box b (any number type)
Rectangle(b) ==
    {px \in (0..(Height - 1)) \X (0..(Width - 1)) :
        /\ NLe(b.min_y, PyInt(px[1])) /\ NLt(PyInt(px[1]), b.max_y)
        /\ NLe(b.min_x, PyInt(px[2])) /\ NLt(PyInt(px[2]), b.max_x)}

\* a relative centre box whose corner form lies in [0,1]
RelativeInside(centered) ==
    /\ centered # Null
    /\ is_relative(centered)
    /\ is_relative(to_bbox(centered))

\* corner form, each coordinate times the image dimension, truncated
ScaledCorner(centered) ==
    LET b == to_bbox(centered)
    IN  BoundingBox(b.class_id,
                    NTrunc(NMul(b.min_x, PyInt(Width))),
                    NTrunc(NMul(b.max_x, PyInt(Width))),
                    NTrunc(NMul(b.min_y, PyInt(Height))),
                    NTrunc(NMul(b.max_y, PyInt(Height))))

\* C3: for an annotation of relative centre boxes whose corner form lies in
\* [0,1], create_mask returns a mask of shape (H, W) whose 255 pixels are
\* exactly those (r, c) with min_y <= r < max_y and min_x <= c < max_x for
\* some box scaled to the image and truncated; the empty annotation gives
\* the all-zero mask; W=100, H=50 and the line "0 0.5 0.5 0.2 0.4" give the
\* 400 pixels of rows 15..34, columns 40..59.
C3_MaskIsUnionOfRectangles ==
    /\ (pc = "done" /\ \A i \in 1..Len(Raw) : RelativeInside(Raw[i]))
       => /\ maskRes.status = "return"
          /\ maskRes.value.shape = <<Height, Width>>
          /\ maskRes.value.fg =
                UNION {Rectangle(ScaledCorner(Raw[i])) : i \in 1..Len(Raw)}
    /\ (pc = "done" /\ Raw = <<>>)
       => (maskRes.status = "return" /\ maskRes.value.fg = {})
    /\ (pc = "done" /\ img = <<3, 50, 100>> /\ srcLines = <<"scenario">>)
       => /\ maskRes.status = "return"
          /\ maskRes.value.fg = (15..34) \X (40..59)
          /\ Cardinality(maskRes.value.fg) = 400

C3_Witness ==
    /\ pc = "done"
    /\ img = <<3, 50, 100>>
    /\ srcLines = <<"scenario", "empty", "left">>
    /\ \A i \in 1..Len(Raw) : RelativeInside(Raw[i])
    /\ maskRes.status = "return"
    /\ <<15, 40>> \in maskRes.value.fg
    /\ <<0, 0>> \in maskRes.value.fg
    /\ <<0, 50>> \notin maskRes.value.fg

\* C4: N well-formed lines interleaved with blank lines give exactly N
\* boxes, the i-th holding the values of the i-th non-blank line; no
\* non-blank line gives zero boxes and no failure.
C4_OneBoxPerNonBlankLine ==
    (/\ pc # "start"
     /\ \A i \in 1..Len(srcLines) : srcLines[i] \in WellFormed \cup Blank)
    => /\ annotation.status = "return"
       /\ Len(Raw) = Len(SaidBoxes)
       /\ \A i \in 1..Len(Raw) : Raw[i] # Null /\ BoxEq(Raw[i], SaidBoxes[i])

\* C5: lines empty after trimming and lines from_str answers None for are
\* left out: the stored sequence holds no None and counts only real boxes.
C5_NoNoneStored ==
    (/\ pc # "start"
     /\ annotation.status = "return")
    => /\ \A i \in 1..Len(Raw) : Raw[i] # Null
       /\ Len(Raw) = Len(SaidBoxes)

\* a centre box in pixel units inside the image
AbsoluteInside(centered) ==
    /\ centered # Null
    /\ is_absolute(centered)
    /\ InExtent(to_bbox(centered), Width, Height)

\* C9: create_mask accepts absolute centre boxes inside the image: each is
\* converted to corner form, left unscaled, and its rectangle painted; the
\* call returns a mask.
C9_AbsoluteBoxesPainted ==
    (/\ pc = "done"
     /\ Len(Raw) > 0
     /\ \A i \in 1..Len(Raw) : AbsoluteInside(Raw[i]))
    => /\ maskRes.status = "return"
       /\ maskRes.value.fg =
             UNION {Rectangle(to_bbox(Raw[i])) : i \in 1..Len(Raw)}

-----------------------------------------------------------------------------
(* The batch driver: scripts/create_masks.py                               *)

MaxItems == 3   \* images found by the glob

\* annotation files of the dataset
ItemTexts == {<<"scenario", "empty">>, <<>>, <<"notnumeric">>, <<"outside">>}

\* an image of the list with what is on disk when it is processed: the
\* image may be gone (or not a regular file), the label file may be
\* missing
Items ==
    {[img_file |-> TRUE, annotation_file |-> TRUE, text |-> t] : t \in ItemTexts}
    \cup {[img_file |-> FALSE, annotation_file |-> TRUE, text |-> <<>>],
          [img_file |-> TRUE, annotation_file |-> FALSE, text |-> <<>>]}

\* MASATIImageAnnotation.from_file: the file is read and handed to from_str
MASATIImageAnnotation_from_file(item) ==
    IF ~item.annotation_file THEN Raise("FileNotFoundError")
    ELSE MASATIImageAnnotation_from_str(AsStr(item.text))

\* Annotation2Mask.from_file: both files must exist; the decoded image is
\* interleaved (H, W, 3)
Annotation2Mask_from_file(item) ==
    IF ~item.img_file THEN Raise("FileNotFoundError")
    ELSE IF ~item.annotation_file THEN Raise("FileNotFoundError")
    ELSE LET anns == MASATIImageAnnotation_from_file(item)
             shape == Annotation2Mask_post_init(<<MaxDim, MaxDim, 3>>)
         IN  IF anns.status # "return" THEN anns
             ELSE IF shape.status # "return" THEN shape
             ELSE Return([img |-> shape.value, annotations |-> anns.value])

\* the body of the try: from_file(...).create_mask().tofile(...)
TryBody(item) ==
    LET annotation2mask == Annotation2Mask_from_file(item)
    IN  IF annotation2mask.status # "return" THEN annotation2mask
        ELSE create_mask(annotation2mask.value.img,
                         annotation2mask.value.annotations)

InitBatch ==
    /\ items \in UNION {[1..n -> Items] : n \in 0..MaxItems}
    /\ outcome = [i \in 1..Len(items) |-> TryBody(items[i])]
    /\ idx = 1
    /\ bpc = "loop"
    /\ written = {}
    /\ reported = {}
    /\ uncaught = Null
    /\ NoAlias
    /\ hist = <<>>
    /\ ops = <<>>
    /\ dims = <<1, 1>>
    /\ srcLines = <<>>
    /\ input = Null
    /\ img = <<>>
    /\ pc = "idle"
    /\ annotation = Null
    /\ maskRes = Null

\* an iteration whose try body completes: the mask is written
WriteMask ==
    /\ bpc = "loop" /\ idx <= Len(items)
    /\ outcome[idx].status = "return"
    /\ written' = written \cup {idx}
    /\ idx' = idx + 1
    /\ UNCHANGED <<items, outcome, bpc, reported, uncaught, boxVars, pipeVars, aliasVars>>

\* a plausible slip: no except clause, the FileNotFoundError ends the script
SkipMissingUncaught ==
    /\ bpc = "loop" /\ idx <= Len(items)
    /\ outcome[idx].status = "FileNotFoundError"
    /\ bpc' = "crashed"
    /\ uncaught' = outcome[idx]
    /\ UNCHANGED <<items, outcome, idx, written, reported, boxVars, pipeVars, aliasVars>>

\* except FileNotFoundError: the message is printed, the loop goes on
SkipMissing ==
    /\ bpc = "loop" /\ idx <= Len(items)
    /\ outcome[idx].status = "FileNotFoundError"
    /\ reported' = reported \cup {idx}
    /\ idx' = idx + 1
    /\ UNCHANGED <<items, outcome, bpc, written, uncaught, boxVars, pipeVars, aliasVars>>

\* any other exception is not caught: the script ends with it
Uncaught ==
    /\ bpc = "loop" /\ idx <= Len(items)
    /\ outcome[idx].status \notin {"return", "FileNotFoundError"}
    /\ bpc' = "crashed"
    /\ uncaught' = outcome[idx]
    /\ UNCHANGED <<items, outcome, idx, written, reported, boxVars, pipeVars, aliasVars>>

\* the list is exhausted
EndOfLoop ==
    /\ bpc = "loop" /\ idx > Len(items)
    /\ bpc' = "done"
    /\ UNCHANGED <<items, outcome, idx, written, reported, uncaught, boxVars, pipeVars, aliasVars>>

NextBatch == WriteMask \/ SkipMissing \/ Uncaught \/ EndOfLoop

\* the loop is sequential code: it takes its next step whenever it has one
SpecBatch == InitBatch /\ [][NextBatch]_vars /\ WF_vars(NextBatch)

Missing(item) == ~item.img_file \/ ~item.annotation_file

Ended == bpc \in {"done", "crashed"}

C10_Processed ==
    /\ \A i \in 1..Len(items) :
        /\ (i < idx /\ Missing(items[i])) => (i \in reported /\ i \notin written)
        /\ (i < idx /\ ~Missing(items[i])) => i \in written
        /\ i >= idx => (i \notin reported /\ i \notin written)
    /\ bpc = "done" => idx = Len(items) + 1
    /\ bpc = "crashed" =>
        /\ ~Missing(items[idx])
        /\ uncaught.status \notin {"return", "FileNotFoundError"}

-----------------------------------------------------------------------------
\* MASATIImageAnnotation objects and the list objects they store.  A Python
\* list is an object with an identity: heap[k] is the content of list k,
\* and a name bound to a list is the index k.

MaxObjects == 2
MaxLists == 3
MaxListLen == 2

\* the list object created once, when the class body is executed, as the
\* default value of the _raw_annotations init-only field
DefaultList == 1

\* a reference to list object k, as passed to the constructor
ListRef(k) == [kind |-> "list", id |-> k]

AliasBoxes == {LineBox("scenario")}

\* the contents of the lists that the calling code or from_str builds
ListValues == UNION {[1..n -> AliasBoxes] : n \in 0..MaxListLen}

\* __post_init__ on heap h: None gets a new empty list, anything else is
\* stored as it is given
MASATIImageAnnotation_post_init(h, arg) ==
    IF arg.kind = "None"
    THEN [heap |-> Append(h, <<>>), raw_annotations |-> Len(h) + 1]
    ELSE [heap |-> h, raw_annotations |-> arg.id]

\* the centered_annotations property: the stored list itself
centered_annotations(self) == self.raw_annotations

\* the boxes an annotation object shows
Boxes(o) == heap[centered_annotations(objs[o])]

\* the state after the class definition: the default list exists, empty
InitAlias ==
    /\ heap = << <<>> >>
    /\ objs = <<>>
    /\ held = {}
    /\ NoBatch
    /\ hist = <<>>
    /\ ops = <<>>
    /\ dims = <<1, 1>>
    /\ srcLines = <<>>
    /\ input = Null
    /\ img = <<>>
    /\ pc = "idle"
    /\ annotation = Null
    /\ maskRes = Null

\* the generated __init__ followed by __post_init__, on heap h
Construct(h, arg, how) ==
    /\ Len(objs) < MaxObjects
    /\ LET r == MASATIImageAnnotation_post_init(h, arg)
       IN  /\ Len(r.heap) <= MaxLists
           /\ heap' = r.heap
           /\ objs' = Append(objs, [raw_annotations |-> r.raw_annotations,
                                    how |-> how,
                                    initial |-> r.heap[r.raw_annotations]])

\* MASATIImageAnnotation(): the argument is the default value
NewNoArgument ==
    /\ Construct(heap, ListRef(DefaultList), "default")
    /\ UNCHANGED <<held, boxVars, pipeVars, batchVars>>

\* MASATIImageAnnotation(_raw_annotations=None)
NewNone ==
    /\ Construct(heap, Null, "None")
    /\ UNCHANGED <<held, boxVars, pipeVars, batchVars>>

\* the calling code builds a list and keeps a name for it
CallerNewList ==
    /\ Len(heap) < MaxLists
    /\ \E content \in ListValues :
        /\ heap' = Append(heap, content)
        /\ held' = held \cup {Len(heap) + 1}
    /\ UNCHANGED <<objs, boxVars, pipeVars, batchVars>>

\* MASATIImageAnnotation(_raw_annotations=l) with a list the caller holds
NewWithList ==
    /\ \E l \in held : Construct(heap, ListRef(l), "list")
    /\ UNCHANGED <<held, boxVars, pipeVars, batchVars>>

\* from_str: the list is built by a comprehension and passed on; nothing
\* else keeps a name for it
NewFromStr ==
    /\ \E content \in ListValues :
        Construct(Append(heap, content), ListRef(Len(heap) + 1), "from_str")
    /\ UNCHANGED <<held, boxVars, pipeVars, batchVars>>

\* l = a.centered_annotations
ReadCenteredAnnotations ==
    /\ \E o \in 1..Len(objs) :
        held' = held \cup {centered_annotations(objs[o])}
    /\ held' # held
    /\ UNCHANGED <<heap, objs, boxVars, pipeVars, batchVars>>

\* l = a.annotations: a new list of corner boxes on every read; an entry
\* that is not a centre box has no to_bbox, the read raises AttributeError
\* and no list comes back
ReadAnnotations ==
    /\ Len(heap) < MaxLists
    /\ \E o \in 1..Len(objs) :
        /\ \A i \in 1..Len(Boxes(o)) :
            Boxes(o)[i].kind = "CenteredBoundingBox"
        /\ heap' = Append(heap, annotations(Boxes(o)).value)
        /\ held' = held \cup {Len(heap) + 1}
    /\ UNCHANGED <<objs, boxVars, pipeVars, batchVars>>

\* l.append(box) on a list the caller holds
AppendThrough ==
    /\ \E l \in held, box \in AliasBoxes :
        /\ Len(heap[l]) < MaxListLen
        /\ heap' = [heap EXCEPT ![l] = Append(@, box)]
    /\ UNCHANGED <<objs, held, boxVars, pipeVars, batchVars>>

\* l.pop() on a list the caller holds
RemoveThrough ==
    /\ \E l \in held :
        /\ Len(heap[l]) > 0
        /\ heap' = [heap EXCEPT ![l] = SubSeq(@, 1, Len(@) - 1)]
    /\ UNCHANGED <<objs, held, boxVars, pipeVars, batchVars>>

NextAlias ==
    \/ NewNoArgument
    \/ NewNone
    \/ CallerNewList
    \/ NewWithList
    \/ NewFromStr
    \/ ReadCenteredAnnotations
    \/ ReadAnnotations
    \/ AppendThrough
    \/ RemoveThrough

SpecAlias == InitAlias /\ [][NextAlias]_vars

\* C11 as stated: every annotation object owns its stored sequence
\* exclusively.  No two annotation objects hold the same list object, and
\* an annotation constructed with no argument starts with no boxes, so that
\* a change made through one annotation is never seen through another or
\* through a later default-constructed one.
C11_ExclusiveOwnership ==
    /\ \A a, b \in 1..Len(objs) :
        a # b => centered_annotations(objs[a]) # centered_annotations(objs[b])
    /\ \A o \in 1..Len(objs) :
        objs[o].how = "default" => objs[o].initial = <<>>

====
